---- MODULE Spec2Model ----
(***************************************************************************)
(* The polling bot of test_embed.py (TwitterToDiscord, "Version 7"):       *)
(* the provider chain get_tweet_ids, the seen-set file, the detail         *)
(* resolver, the webhook sender and the run loop, as a state machine.      *)
(*                                                                         *)
(* A tweet id is an opaque value of Ids.  The environment is free: every   *)
(* HTTP endpoint may raise, answer a non-200 status or answer any body,    *)
(* and the process may be killed and started again.  The file system is    *)
(* taken to accept every write that is not cut short by a kill.            *)
(*                                                                         *)
(* Beside the loop (Spec, SpecLive, SpecHistory, SpecChain) the module     *)
(* has main (SpecMain), the media of a resolved post and the embeds built  *)
(* from it (SpecPost), the form of the ids the adapters keep (SpecIds),    *)
(* parse_rss_ids on a whole feed body (SpecFeed), and the loop and the     *)
(* embeds of twitter_to_discord.py, "v4" (SpecV4, and the RSS items of     *)
(* SpecPost).                                                              *)
(***************************************************************************)
EXTENDS Naturals, Sequences, FiniteSets, TLC

(* ------------------------------ bounds -------------------------------- *)
NumIds == 3
MaxFetchLen == 2
MaxChainLen == 1
MaxCycles == 2

(* ------------------------- program constants -------------------------- *)
FeedCap == 10
NumMethods == 4
NumRsshub == 3
NumNitter == 6

Ids == 1..NumIds
Lists == UNION {[1..n -> Ids] : n \in 0..MaxFetchLen}
NonEmptyLists == Lists \ {<<>>}

(* Python's None where a string is expected.  The file seen_tweets.json is *)
(* absent, cut short by a kill (not parsable), or holds a JSON list.       *)
PyNone == "<None>"
NoFile == [st |-> "absent", data |-> {}]
Torn == [st |-> "torn", data |-> {}]
File(s) == [st |-> "list", data |-> s]

Range(s) == {s[k] : k \in 1..Len(s)}
Min(a, b) == IF a < b THEN a ELSE b
Take(s, n) == SubSeq(s, 1, Min(n, Len(s)))

Hook == "https://discord.com/api/webhooks/1"
NoCall == [fn |-> "none"]

(* ------------------------------ state --------------------------------- *)
VARIABLES
    pc,               \* "idle" | "delivering" | "sleeping" | "down"
    seen_tweets,      \* self.seen_tweets
    first_run,        \* self.first_run
    seen_tweets_file, \* content of seen_tweets.json: NoFile, Torn or File(s)
    tweet_ids,        \* run: the list get_tweet_ids returned this cycle
    new_ids,          \* run: the list comprehension of line 300
    i,                \* run: enumerate position in reversed(new_ids), from 1
    branch,           \* which arm of run's if/elif this cycle took
    noneUp,           \* no method of this cycle's chain returned a non-empty list
    calls,            \* ChainFetch: the methods get_tweet_ids called, in order
    resp,             \* ChainFetch: the upstream responses of the invocation
    log,              \* resolve / send / raise events of this cycle, in order
    seen0,            \* seen_tweets when this cycle began
    startSeen,        \* ids in seen_tweets at the start of a cycle of this process
    sendCount,        \* webhook POSTs made per id by this process: 0, 1, 2 = more
    done,             \* ids whose loop body ran to its end in this process
    crashKind,        \* where the last kill hit
    cycle,            \* cycles begun
    existing,         \* ids upstream showed when this process bootstrapped
    webhook_url,      \* DISCORD_WEBHOOK_URL as main reads it ("" when absent)
    lastCall          \* a function called on its own: its input and result

(* What the run loop reads and writes.                                     *)
loopVars == <<pc, seen_tweets, first_run, seen_tweets_file, tweet_ids,
              new_ids, i, branch, noneUp, calls, resp, log, seen0, startSeen,
              sendCount, done, crashKind, cycle, existing>>

vars == <<pc, seen_tweets, first_run, seen_tweets_file, tweet_ids, new_ids, i,
          branch, noneUp, calls, resp, log, seen0, startSeen, sendCount, done,
          crashKind, cycle, existing, webhook_url, lastCall>>

(* ------------------------- upstream responses ------------------------- *)
(* One HTTP exchange: requests raised (exc), or answered with a status and *)
(* a body; ids is the ordered list of tweet ids the body carries and long  *)
(* says whether len(response.text) > 100.                                  *)
Exc == [exc |-> TRUE, status |-> 0, ids |-> <<>>, long |-> FALSE]
Http(st, l, lg) == [exc |-> FALSE, status |-> st, ids |-> l, long |-> lg]

FailKinds == <<"exc", "non200", "empty", "short">>
Bad(kind, l) ==
    CASE kind = "exc" -> Exc
      [] kind = "non200" -> Http(404, l, TRUE)
      [] kind = "empty" -> Http(200, <<>>, TRUE)
      [] OTHER -> Http(200, l, FALSE)

(* What a try_* method does: raise, or return a list.                      *)
Raised == [raised |-> TRUE, ids |-> <<>>]
Returned(l) == [raised |-> FALSE, ids |-> l]

(* parse_rss_ids at the level of ids: the first 10 items of the feed.      *)
parse_rss_ids(r) == Take(r.ids, FeedCap)

try_syndication_api(r) ==
    IF r.exc \/ r.status # 200 THEN Raised
    ELSE Returned(Take(r.ids, FeedCap))

try_fxtwitter_user(r) ==
    IF r.exc \/ r.status # 200 THEN Raised
    ELSE Returned(Take(r.ids, 1))

RECURSIVE rsshub_from(_, _)
rsshub_from(rs, k) ==
    IF k > Len(rs) THEN <<>>
    ELSE IF ~rs[k].exc /\ rs[k].status = 200 /\ rs[k].long
            /\ parse_rss_ids(rs[k]) # <<>>
         THEN parse_rss_ids(rs[k])
         ELSE rsshub_from(rs, k + 1)

try_rsshub(rs) == Returned(rsshub_from(rs, 1))

RECURSIVE nitter_from(_, _)
nitter_from(rs, k) ==
    IF k > Len(rs) THEN <<>>
    ELSE IF ~rs[k].exc /\ rs[k].status = 200 /\ parse_rss_ids(rs[k]) # <<>>
         THEN parse_rss_ids(rs[k])
         ELSE nitter_from(rs, k + 1)

try_nitter(rs) == Returned(nitter_from(rs, 1))

(* methods[k]() of get_tweet_ids, on the responses r of one cycle.         *)
Method(k, r) ==
    CASE k = 1 -> try_syndication_api(r.syn)
      [] k = 2 -> try_fxtwitter_user(r.fx)
      [] k = 3 -> try_rsshub(r.rss)
      [] OTHER -> try_nitter(r.nit)

(* The for loop of get_tweet_ids from method k on; called is the list of   *)
(* methods invoked so far.                                                 *)
RECURSIVE methods_from(_, _, _)
methods_from_unstopped(k, r, called) ==
    IF k > NumMethods THEN [ids |-> <<>>, calls |-> called]
    ELSE LET y == Method(k, r)
             rest == methods_from(k + 1, r, Append(called, k))
         IN IF ~y.raised /\ y.ids # <<>> /\ rest.ids = <<>>
            THEN [ids |-> y.ids, calls |-> rest.calls]
            ELSE rest

methods_from(k, r, called) ==
    IF k > NumMethods THEN [ids |-> <<>>, calls |-> called]
    ELSE LET y == Method(k, r)
         IN IF ~y.raised /\ y.ids # <<>>
            THEN [ids |-> y.ids, calls |-> Append(called, k)]
            ELSE methods_from(k + 1, r, Append(called, k))

get_tweet_ids(r) == methods_from(1, r, <<>>)

(* ---------------------------- seen-set file ---------------------------- *)
(* load_seen_tweets: the JSON list of the file, or the empty set when the  *)
(* file is absent or json.load raises.                                     *)
load_seen_tweets(f) == IF f.st = "list" THEN f.data ELSE {}
(* line 23: self.first_run = len(self.seen_tweets) == 0.                   *)
is_first_run_always(seen) == TRUE
is_first_run(seen) == Cardinality(seen) = 0

(* save_seen_tweets: open(..., 'w') discards the old content f and the     *)
(* whole set s is dumped.  The write is taken to succeed: the except arm   *)
(* (a write the file system refuses, reported and swallowed) is not drawn. *)
save_seen_tweets_lost(s, f) == f

save_seen_tweets(s, f) == File(s)

(* ------------------------- resolver and sender ------------------------- *)
(* The detail endpoint's answer for one id: text is the 'text' field of    *)
(* the tweet object: a string, JSON null (PyNone) or absent (Missing).     *)
Missing == "<missing>"
DetailExc == [exc |-> TRUE, status |-> 0, has_tweet |-> FALSE, text |-> ""]
Detail(st, has, t) == [exc |-> FALSE, status |-> st, has_tweet |-> has, text |-> t]
DetailResps ==
    {DetailExc, Detail(404, FALSE, ""), Detail(200, FALSE, ""),
     Detail(200, TRUE, Missing), Detail(200, TRUE, PyNone),
     Detail(200, TRUE, "hello")}

(* get_tweet_details: found = FALSE is the None it returns.                *)
get_tweet_details(tweet_id, r) ==
    IF ~r.exc /\ r.status = 200 /\ r.has_tweet
    THEN [found |-> TRUE, id |-> tweet_id,
          text |-> IF r.text = Missing THEN "" ELSE r.text]
    ELSE [found |-> FALSE, id |-> tweet_id, text |-> ""]

(* The webhook's answer to the POST: a 2xx, an error status, or requests   *)
(* raising.                                                                *)
WebhookResps == {"204", "500", "exc"}

(* send_to_discord: text[:4096] (or text += ...) on None raises TypeError  *)
(* before the try block; otherwise the POST is made and its outcome is the *)
(* return value.                                                           *)
send_to_discord(tweet, w) ==
    IF tweet.text = PyNone
    THEN [raised |-> TRUE, posted |-> FALSE, ret |-> FALSE]
    ELSE [raised |-> FALSE, posted |-> TRUE, ret |-> (w = "204")]

(* ------------------------------ run loop ------------------------------- *)
(* line 300: [tid for tid in tweet_ids if tid not in self.seen_tweets]     *)
filter_new(ids, seen) == SelectSeq(ids, LAMBDA t : t \notin seen)

reversed_same(s) == s

reversed(s) == [k \in 1..Len(s) |-> s[Len(s) + 1 - k]]

(* which arm of lines 297-313 a cycle takes                                *)
run_branch_flag_first(ids, fr, new) ==
    IF fr THEN "bootstrap"
    ELSE IF ids = <<>> THEN "empty"
    ELSE IF new = <<>> THEN "nonew"
    ELSE "deliver"

run_branch(ids, fr, new) ==
    IF ids = <<>> THEN "empty"
    ELSE IF fr THEN "bootstrap"
    ELSE IF new = <<>> THEN "nonew"
    ELSE "deliver"

(* lines 304-305: for tid in tweet_ids: self.seen_tweets.add(tid)          *)
bootstrap_seen_newest_only(seen, ids) == seen \cup {ids[1]}

bootstrap_seen(seen, ids) == seen \cup Range(ids)

(* lines 318-324: both arms add tweet_id, whatever send_to_discord gave    *)
mark_seen_on_success(seen, tweet_id, found, ret) ==
    IF found /\ ~ret THEN seen ELSE seen \cup {tweet_id}

mark_seen_replacing(seen, tweet_id, found, ret) == {tweet_id}

mark_seen(seen, tweet_id, found, ret) == seen \cup {tweet_id}

(* one resolve / send / raise event of the cycle                           *)
Ev(kind, id, res) == [kind |-> kind, id |-> id, res |-> res]

(* ------------------------ inputs of one cycle -------------------------- *)
(* The responses of one cycle: the endpoints before adapter a (and, inside *)
(* adapter a, the mirrors before m) answer with an exception, a 404, an    *)
(* empty list or a body of at most 100 characters (which only try_rsshub   *)
(* rejects), adapter j with kind f + j - 1; mirror m of adapter a serves   *)
(* l; every endpoint after it is up and serves another list.  With         *)
(* a = NumMethods + 1 no endpoint is set up to serve l.                    *)
Scenario(a, f, m, l) ==
    LET alt == <<(l[1] % NumIds) + 1>>
        kind(j) == FailKinds[((f + j - 2) % 4) + 1]
        one(j) == IF j < a THEN Bad(kind(j), l)
                  ELSE Http(200, IF j = a THEN l ELSE alt, TRUE)
        mirrors(j, n) ==
            [q \in 1..n |->
                IF j < a \/ (j = a /\ q < m) THEN Bad(kind(j), l)
                ELSE Http(200, IF j = a /\ q = m THEN l ELSE alt, TRUE)]
    IN [syn |-> one(1), fx |-> one(2),
        rss |-> mirrors(3, NumRsshub), nit |-> mirrors(4, NumNitter)]

MirrorsOf(a) == IF a = 3 THEN NumRsshub ELSE IF a = 4 THEN NumNitter ELSE 1

ChainLists == {l \in NonEmptyLists : Len(l) <= MaxChainLen}

ChainResps ==
    {Scenario(a, f, m, l) : a \in 1..(NumMethods + 1), f \in 1..4,
                            m \in 1..NumNitter, l \in ChainLists}

LoopResps ==
    {Scenario(a, f, 1, l) : a \in 1..(NumMethods + 1), f \in {2, 3},
                            l \in NonEmptyLists}

InitialResp == Scenario(NumMethods + 1, 1, 1, <<1>>)

(* The ids upstream shows to exist at the time of a cycle: those carried   *)
(* by the bodies its endpoints answer with status 200, whether or not the  *)
(* chain reads them.                                                       *)
shown(x) == IF ~x.exc /\ x.status = 200 THEN Range(x.ids) ELSE {}
upstream_ids(r) ==
    shown(r.syn) \cup shown(r.fx)
        \cup UNION {shown(r.rss[q]) : q \in 1..NumRsshub}
        \cup UNION {shown(r.nit[q]) : q \in 1..NumNitter}

(* ------------------------------- Init ---------------------------------- *)
(* __init__ (called from main): the set is loaded from the file, first_run *)
(* is whether it came out empty.  The file of an earlier run is absent or  *)
(* holds any non-empty set of ids (up to renaming: the ids 1..n).          *)
InitBot ==
    /\ seen_tweets_file \in {NoFile} \cup {File(1..n) : n \in Ids}
    /\ seen_tweets = load_seen_tweets(seen_tweets_file)
    /\ first_run = is_first_run(seen_tweets)
    /\ pc = "idle"
    /\ tweet_ids = <<>>
    /\ new_ids = <<>>
    /\ i = 1
    /\ branch = "none"
    /\ noneUp = FALSE
    /\ calls = <<>>
    /\ resp = InitialResp
    /\ log = <<>>
    /\ seen0 = {}
    /\ startSeen = {}
    /\ sendCount = [x \in Ids |-> 0]
    /\ done = {}
    /\ crashKind = "none"
    /\ cycle = 0
    /\ existing = {}

(* main has read a webhook URL and built the bot (lines 337-345).          *)
Init ==
    /\ InitBot
    /\ webhook_url = Hook
    /\ lastCall = NoCall

(* ------------------------------ actions -------------------------------- *)
(* The loop is at the top of the while of line 290, with cycles left.     *)
AtTop == pc = "idle" /\ cycle < MaxCycles

(* One pass of the while loop up to the for loop, lines 292-314, on the    *)
(* upstream responses r.                                                   *)
Cycle(r) ==
    /\ LET g == get_tweet_ids(r)
            new == filter_new(g.ids, seen_tweets)
            b == run_branch(g.ids, first_run, new)
        IN /\ tweet_ids' = g.ids
           /\ noneUp' = \A k \in 1..NumMethods :
                             Method(k, r).raised \/ Method(k, r).ids = <<>>
           /\ new_ids' = new
           /\ branch' = b
           /\ IF b = "bootstrap"
              THEN /\ seen_tweets' = bootstrap_seen(seen_tweets, g.ids)
                   /\ seen_tweets_file' =
                          save_seen_tweets(seen_tweets', seen_tweets_file)
                   /\ first_run' = FALSE
              ELSE UNCHANGED <<seen_tweets, seen_tweets_file, first_run>>
           /\ pc' = IF b = "deliver" THEN "delivering" ELSE "sleeping"
    /\ i' = 1
    /\ log' = <<>>
    /\ seen0' = seen_tweets
    /\ startSeen' = startSeen \cup seen_tweets
    /\ cycle' = cycle + 1
    /\ UNCHANGED <<calls, resp, sendCount, done, crashKind, webhook_url,
                   lastCall>>

RunCycle ==
    /\ AtTop
    /\ \E r \in LoopResps : Cycle(r)
    /\ UNCHANGED existing

(* lines 329-330: "except Exception as e" prints the error; control falls  *)
(* through to the sleep of lines 332-334 inside the "while True" of line   *)
(* 290.  e is the class of the exception the body raised.                  *)
after_exception_uncaught(e) == "halted"
after_exception(e) == "sleeping"

(* One pass of the for loop of line 315: lines 316-327, and the except of  *)
(* line 329 when send_to_discord raises.                                   *)
RunDeliverOne ==
    /\ pc = "delivering"
    /\ \E d \in DetailResps, w \in WebhookResps :
        LET tweet_id == reversed(new_ids)[i]
            tweet == get_tweet_details(tweet_id, d)
            s == send_to_discord(tweet, w)
        IN IF tweet.found /\ s.raised
           THEN /\ log' = log \o <<Ev("resolve", tweet_id, "found"),
                                   Ev("raise", tweet_id, "TypeError")>>
                /\ pc' = after_exception("TypeError")
                /\ UNCHANGED <<seen_tweets, seen_tweets_file, sendCount,
                               done, i>>
           ELSE /\ log' = IF tweet.found
                          THEN log \o <<Ev("resolve", tweet_id, "found"),
                                        Ev("send", tweet_id,
                                           IF s.ret THEN "ok" ELSE "failed")>>
                          ELSE Append(log, Ev("resolve", tweet_id, "none"))
                /\ sendCount' = IF tweet.found
                                THEN [sendCount EXCEPT ![tweet_id] = IF @ < 2 THEN @ + 1 ELSE @]
                                ELSE sendCount
                /\ seen_tweets' =
                       mark_seen(seen_tweets, tweet_id, tweet.found, s.ret)
                /\ seen_tweets_file' =
                       save_seen_tweets(seen_tweets', seen_tweets_file)
                /\ done' = done \cup {tweet_id}
                /\ i' = i + 1
                /\ pc' = IF i < Len(new_ids) THEN "delivering" ELSE "sleeping"
    /\ UNCHANGED <<first_run, tweet_ids, new_ids, branch, noneUp, calls, resp,
                   seen0, startSeen, crashKind, cycle>>
    /\ UNCHANGED <<existing, webhook_url, lastCall>>

(* lines 332-334: the cycle is over; its locals are dead.                  *)
RunSleep ==
    /\ pc = "sleeping"
    /\ pc' = "idle"
    /\ tweet_ids' = <<>>
    /\ new_ids' = <<>>
    /\ i' = 1
    /\ branch' = "none"
    /\ noneUp' = FALSE
    /\ log' = <<>>
    /\ seen0' = {}
    /\ UNCHANGED <<seen_tweets, first_run, seen_tweets_file, calls, resp, startSeen,
                   sendCount, done, crashKind, cycle>>
    /\ UNCHANGED <<existing, webhook_url, lastCall>>

(* The process is killed between two steps of the loop (in a sleep).  A    *)
(* kill needs no bound: Restart forgets the history of the killed process. *)
Crash ==
    /\ pc \in {"idle", "delivering", "sleeping"}
    /\ pc' = "down"
    /\ crashKind' = "between"
    /\ UNCHANGED <<seen_tweets, first_run, seen_tweets_file, tweet_ids,
                   new_ids, i, branch, noneUp, calls, resp, log, seen0,
                   startSeen, sendCount, done, cycle>>
    /\ UNCHANGED <<existing, webhook_url, lastCall>>

(* The process is killed inside the loop body, after the resolve (and the  *)
(* POST, when there is one) and before lines 320 / 323.                    *)
CrashInFlight ==
    /\ pc = "delivering"
    /\ \E d \in DetailResps, w \in WebhookResps :
        LET tweet_id == reversed(new_ids)[i]
            tweet == get_tweet_details(tweet_id, d)
            s == send_to_discord(tweet, w)
        IN /\ ~(tweet.found /\ s.raised)
           /\ log' = IF tweet.found
                     THEN log \o <<Ev("resolve", tweet_id, "found"),
                                   Ev("send", tweet_id,
                                      IF s.ret THEN "ok" ELSE "failed")>>
                     ELSE Append(log, Ev("resolve", tweet_id, "none"))
           /\ sendCount' = IF tweet.found
                           THEN [sendCount EXCEPT ![tweet_id] = IF @ < 2 THEN @ + 1 ELSE @]
                           ELSE sendCount
    /\ pc' = "down"
    /\ crashKind' = "inflight"
    /\ UNCHANGED <<seen_tweets, first_run, seen_tweets_file, tweet_ids,
                   new_ids, i, branch, noneUp, calls, resp, seen0, startSeen,
                   done, cycle>>
    /\ UNCHANGED <<existing, webhook_url, lastCall>>

(* The process is killed inside save_seen_tweets of line 321 / 324: the    *)
(* file has been opened for writing and the dump has not completed.        *)
CrashDuringSave ==
    /\ pc = "delivering"
    /\ \E d \in DetailResps, w \in WebhookResps :
        LET tweet_id == reversed(new_ids)[i]
            tweet == get_tweet_details(tweet_id, d)
            s == send_to_discord(tweet, w)
        IN /\ ~(tweet.found /\ s.raised)
           /\ log' = IF tweet.found
                     THEN log \o <<Ev("resolve", tweet_id, "found"),
                                   Ev("send", tweet_id,
                                      IF s.ret THEN "ok" ELSE "failed")>>
                     ELSE Append(log, Ev("resolve", tweet_id, "none"))
           /\ sendCount' = IF tweet.found
                           THEN [sendCount EXCEPT ![tweet_id] = IF @ < 2 THEN @ + 1 ELSE @]
                           ELSE sendCount
           /\ seen_tweets' =
                  mark_seen(seen_tweets, tweet_id, tweet.found, s.ret)
    /\ seen_tweets_file' = Torn
    /\ pc' = "down"
    /\ crashKind' = "insave"
    /\ UNCHANGED <<first_run, tweet_ids, new_ids, i, branch, noneUp, calls,
                   resp, seen0, startSeen, done, cycle>>
    /\ UNCHANGED <<existing, webhook_url, lastCall>>

(* main starts the program again: __init__ reloads the file.               *)
Restart ==
    /\ pc = "down"
    /\ seen_tweets' = load_seen_tweets(seen_tweets_file)
    /\ first_run' = is_first_run(seen_tweets')
    /\ pc' = "idle"
    /\ tweet_ids' = <<>>
    /\ new_ids' = <<>>
    /\ i' = 1
    /\ branch' = "none"
    /\ noneUp' = FALSE
    /\ log' = <<>>
    /\ seen0' = {}
    /\ startSeen' = {}
    /\ sendCount' = [x \in Ids |-> 0]
    /\ done' = {}
    /\ crashKind' = "none"
    /\ existing' = {}
    /\ UNCHANGED <<seen_tweets_file, calls, resp, cycle, webhook_url, lastCall>>

Next ==
    \/ RunCycle
    \/ RunDeliverOne
    \/ RunSleep
    \/ Crash
    \/ CrashInFlight
    \/ CrashDuringSave
    \/ Restart

Spec == Init /\ [][Next]_vars

(* The provider chain alone: get_tweet_ids is invoked cycle after cycle on *)
(* arbitrary responses, which are remembered in resp.                      *)
ChainFetch ==
    /\ \E r \in ChainResps :
        LET g == get_tweet_ids(r)
        IN /\ resp' = r
           /\ tweet_ids' = g.ids
           /\ calls' = g.calls
    /\ UNCHANGED <<pc, seen_tweets, first_run, seen_tweets_file, new_ids, i,
                   branch, noneUp, log, seen0, startSeen, sendCount, done,
                   crashKind, cycle>>
    /\ UNCHANGED <<existing, webhook_url, lastCall>>

InitChain == Init /\ seen_tweets_file = NoFile

SpecChain == InitChain /\ [][ChainFetch]_vars

(* The loop left to itself, with no kill from outside.  The process is a  *)
(* single thread: every HTTP call carries a timeout (lines 77, 96, 125,    *)
(* 147, 179, 273) and time.sleep returns, so a step that can be taken is   *)
(* taken.                                                                  *)
NextLive ==
    \/ RunCycle
    \/ RunDeliverOne
    \/ RunSleep

SpecLive ==
    /\ Init
    /\ [][NextLive]_vars
    /\ WF_vars(RunCycle)
    /\ WF_vars(RunDeliverOne)
    /\ WF_vars(RunSleep)

(* The same loop, keeping note at the bootstrap cycle of the ids upstream  *)
(* showed at that time.                                                    *)
RunCycleNoting ==
    /\ AtTop
    /\ \E r \in LoopResps :
        /\ Cycle(r)
        /\ existing' = IF branch' = "bootstrap" THEN upstream_ids(r)
                       ELSE existing

NextHistory ==
    \/ RunCycleNoting
    \/ RunDeliverOne
    \/ RunSleep

SpecHistory == Init /\ [][NextHistory]_vars

(* ------------------- the loop of twitter_to_discord.py ----------------- *)
(* fetch_tweets_rss asks three Nitter instances in turn; parse_rss reads   *)
(* the first 10 items of a feed and skips the ids already seen.            *)
NumInstances == 3
parse_rss(r, seen) == SelectSeq(Take(r.ids, FeedCap), LAMBDA t : t \notin seen)
RECURSIVE fetch_from(_, _, _)
fetch_from(rs, k, seen) ==
    IF k > NumInstances THEN <<>>
    ELSE IF ~rs[k].exc /\ rs[k].status = 200 /\ parse_rss(rs[k], seen) # <<>>
         THEN parse_rss(rs[k], seen)
         ELSE fetch_from(rs, k + 1, seen)
fetch_tweets_rss(rs, seen) == fetch_from(rs, 1, seen)

(* The instances before m raise (f = 1) or answer 404 (f = 2), instance m  *)
(* serves l, the ones after it another list; m = NumInstances + 1: none.   *)
V4Resps ==
    {[q \in 1..NumInstances |->
         IF q < m THEN Bad(FailKinds[f], l)
         ELSE Http(200, IF q = m THEN l ELSE <<(l[1] % NumIds) + 1>>, TRUE)] :
        f \in 1..2, m \in 1..(NumInstances + 1), l \in NonEmptyLists}

(* run, lines 349-352: the unseen tweets, oldest first.                    *)
new_tweets(tweets, seen) == filter_new(reversed(tweets), seen)
(* run, lines 358-361: the id is added only when the send returned True.   *)
add_if_sent(seen, tweet_id, ret) == IF ret THEN seen \cup {tweet_id} ELSE seen

(* run, lines 320-352 and 366-367.                                         *)
V4RunCycle ==
    /\ pc = "idle"
    /\ cycle < MaxCycles
    /\ \E rs \in V4Resps :
        LET tweets == fetch_tweets_rss(rs, seen_tweets)
            new == new_tweets(tweets, seen_tweets)
            b == IF tweets = <<>> THEN "empty"
                 ELSE IF first_run THEN "bootstrap"
                 ELSE IF new # <<>> THEN "deliver" ELSE "nonew"
        IN /\ tweet_ids' = tweets
           /\ noneUp' = (tweets = <<>>)
           /\ new_ids' = IF b = "deliver" THEN new ELSE <<>>
           /\ branch' = b
           /\ IF b = "bootstrap"
              THEN /\ seen_tweets' = seen_tweets \cup Range(tweets)
                   /\ seen_tweets_file' =
                          save_seen_tweets(seen_tweets', seen_tweets_file)
                   /\ first_run' = FALSE
              ELSE UNCHANGED <<seen_tweets, seen_tweets_file, first_run>>
           /\ pc' = IF b = "deliver" THEN "delivering" ELSE "sleeping"
    /\ i' = 1
    /\ log' = <<>>
    /\ seen0' = seen_tweets
    /\ startSeen' = startSeen \cup seen_tweets
    /\ cycle' = cycle + 1
    /\ UNCHANGED <<calls, resp, sendCount, done, crashKind, existing,
                   webhook_url, lastCall>>

(* run, lines 355-364: one pass of the for loop over new_tweets;           *)
(* send_to_discord (lines 281-312) returns False on any failure.           *)
V4PostOne ==
    /\ pc = "delivering"
    /\ \E w \in WebhookResps :
        LET tweet_id == new_ids[i]
            ret == (w = "204")
        IN /\ log' = Append(log, Ev("send", tweet_id,
                                    IF ret THEN "ok" ELSE "failed"))
           /\ sendCount' = [sendCount EXCEPT
                                ![tweet_id] = IF @ < 2 THEN @ + 1 ELSE @]
           /\ seen_tweets' = add_if_sent(seen_tweets, tweet_id, ret)
           /\ seen_tweets_file' =
                  IF ret THEN save_seen_tweets(seen_tweets', seen_tweets_file)
                  ELSE seen_tweets_file
           /\ done' = done \cup {tweet_id}
    /\ i' = i + 1
    /\ pc' = IF i < Len(new_ids) THEN "delivering" ELSE "sleeping"
    /\ UNCHANGED <<first_run, tweet_ids, new_ids, branch, noneUp, calls, resp,
                   seen0, startSeen, crashKind, cycle, existing, webhook_url,
                   lastCall>>

(* lines 372-375: the sleep between two cycles.                            *)
V4Sleep == RunSleep

NextV4 ==
    \/ V4RunCycle
    \/ V4PostOne
    \/ V4Sleep

SpecV4 == Init /\ [][NextV4]_vars

(* ---------------------------------- main ------------------------------- *)
(* The process before main has run: no bot exists, the file is whatever an *)
(* earlier run left, and DISCORD_WEBHOOK_URL is set or absent.             *)
InitMain ==
    /\ seen_tweets_file \in {NoFile} \cup {File(1..n) : n \in Ids}
    /\ webhook_url \in {"", Hook}
    /\ pc = "start"
    /\ seen_tweets = {}
    /\ first_run = FALSE
    /\ tweet_ids = <<>>
    /\ new_ids = <<>>
    /\ i = 1
    /\ branch = "none"
    /\ noneUp = FALSE
    /\ calls = <<>>
    /\ resp = InitialResp
    /\ log = <<>>
    /\ seen0 = {}
    /\ startSeen = {}
    /\ sendCount = [x \in Ids |-> 0]
    /\ done = {}
    /\ crashKind = "none"
    /\ cycle = 0
    /\ existing = {}
    /\ lastCall = NoCall

(* line 339: "if not DISCORD_WEBHOOK_URL: return".                         *)
main_goes_on_any(url) == TRUE
main_goes_on(url) == url # ""

(* main, lines 337-345: without a URL it returns; with one it builds the   *)
(* bot (__init__ loads the file) and enters run.                           *)
Main ==
    /\ pc = "start"
    /\ IF main_goes_on(webhook_url)
       THEN /\ seen_tweets' = load_seen_tweets(seen_tweets_file)
            /\ first_run' = is_first_run(seen_tweets')
            /\ pc' = "idle"
       ELSE /\ pc' = "halted"
            /\ UNCHANGED <<seen_tweets, first_run>>
    /\ UNCHANGED <<seen_tweets_file, tweet_ids, new_ids, i, branch, noneUp,
                   calls, resp, log, seen0, startSeen, sendCount, done,
                   crashKind, cycle, existing, webhook_url, lastCall>>

NextMain ==
    \/ Main
    \/ RunCycle
    \/ RunDeliverOne
    \/ RunSleep

SpecMain == InitMain /\ [][NextMain]_vars

(* ------------------ the resolved post and its payload ------------------ *)
(* A text is known by its length in characters.  A description is what is  *)
(* left of it in the embed: text characters of the tweet text, marker      *)
(* characters of the watch-video marker, or the placeholder.               *)
(* DescCap: the cut of line 242.  MarkerLen: the marker of line 238 with   *)
(* the link of a 19-digit id.  PlaceholderLen: "No text content".          *)
(* MaxPhotos bounds the photos of a record and the img tags of an item,    *)
(* MaxMedia the videos and the gifs of a record.                           *)
DescCap == 4096
MarkerLen == 89
PlaceholderLen == 15
MaxPhotos == 5
MaxMedia == 1
(* Text lengths: empty, short, and just under and over what the cut keeps  *)
(* beside the marker.                                                      *)
TextLens == {0, 5, DescCap - MarkerLen, DescCap - MarkerLen + 1, DescCap + 5}
Absent == "<absent>"
Link == "https://twitter.com/SoJ_Global/status/1"

PySlice(s, a, b) == SubSeq(s, a + 1, Min(b, Len(s)))
truthy(v) == v # PyNone /\ v # ""
Desc(t, m, ph) == [text |-> t, marker |-> m, placeholder |-> ph]
DescLen(d) == IF d.placeholder THEN PlaceholderLen ELSE d.text + d.marker

(* The 'tweet' object of the fxtwitter status API as get_tweet_details     *)
(* reads it: a url or thumbnail_url that is missing or empty is "".        *)
PhotoUrls == {"", "https://a.jpg", "https://b.jpg"}
VideoEntries ==
    [url : {"", "https://v.mp4"}, thumbnail_url : {"", "https://vt.jpg"}]
GifEntries ==
    [url : {"", "https://g.mp4"}, thumbnail_url : {"", "https://gt.jpg"}]
SeqsUpTo(S, n) == UNION {[1..k -> S] : k \in 0..n}
Tweets ==
    [text : TextLens, photos : SeqsUpTo(PhotoUrls, MaxPhotos),
     videos : {<<>>}, gifs : {<<>>}]
    \cup [text : TextLens, photos : SeqsUpTo(PhotoUrls, 1),
          videos : SeqsUpTo(VideoEntries, MaxMedia),
          gifs : SeqsUpTo(GifEntries, MaxMedia)]

(* lines 186-207 and 218-226 of get_tweet_details: the media of the        *)
(* record, then the dict it returns.                                       *)
get_tweet_details_media_thumb_always(tweet) ==
    LET photos == SelectSeq(tweet.photos, truthy)
        thumb == IF tweet.videos # <<>>
                 THEN tweet.videos[1].thumbnail_url ELSE ""
    IN [text |-> tweet.text, link |-> Link,
        images |-> IF truthy(thumb) THEN Append(photos, thumb) ELSE photos,
        video_url |-> IF tweet.videos # <<>> THEN tweet.videos[1].url
                      ELSE PyNone]
get_tweet_details_media(tweet) ==
    LET photos == SelectSeq(tweet.photos, truthy)
        videos == tweet.videos
        video_url1 == IF videos # <<>> THEN videos[1].url ELSE PyNone
        thumb1 == IF videos # <<>> THEN videos[1].thumbnail_url ELSE ""
        images1 == IF videos # <<>> /\ truthy(thumb1) /\ photos = <<>>
                   THEN <<thumb1>> ELSE photos
        gifs == tweet.gifs
        use_gif == gifs # <<>> /\ ~truthy(video_url1)
        video_url2 == IF use_gif THEN gifs[1].url ELSE video_url1
        thumb2 == IF use_gif THEN gifs[1].thumbnail_url ELSE ""
        images2 == IF use_gif /\ truthy(thumb2) /\ images1 = <<>>
                   THEN <<thumb2>> ELSE images1
    IN [text |-> tweet.text, link |-> Link, images |-> images2,
        video_url |-> video_url2]

(* test_embed.py send_to_discord, lines 233-263: the embeds of the payload. *)
(* text[:4096] of line 242 cuts the text with the marker appended.          *)
cut(t, m) == Desc(Min(t, DescCap), Min(m, DescCap - Min(t, DescCap)), FALSE)
main_embed(tweet) ==
    [description |-> cut(tweet.text,
                         IF truthy(tweet.video_url) THEN MarkerLen ELSE 0),
     url |-> tweet.link,
     image |-> IF tweet.images # <<>> THEN tweet.images[1] ELSE Absent]
extra_embed(link, img) == [description |-> Absent, url |-> link, image |-> img]
embeds_of(tweet) ==
    LET extra == SelectSeq(PySlice(tweet.images, 1, 4), truthy)
    IN <<main_embed(tweet)>>
           \o [k \in 1..Len(extra) |-> extra_embed(tweet.link, extra[k])]

(* twitter_to_discord.py.  An RSS item is known by its title length and    *)
(* the src values of the img tags of its description, in order.            *)
ImgSrcs ==
    {"https://a.jpg", "https://b.jpg", "//pbs.twimg.com/c", "/img/d.jpg"}
startswith_http(u) == u \in {"https://a.jpg", "https://b.jpg"}
endswith_image_ext(u) == u \in {"https://a.jpg", "https://b.jpg", "/img/d.jpg"}
in_pbs(u) == u = "//pbs.twimg.com/c"
Items == [text : TextLens, srcs : SeqsUpTo(ImgSrcs, MaxPhotos)]

RECURSIVE Dedup(_)
Dedup(s) ==
    IF s = <<>> THEN <<>>
    ELSE LET front == Dedup(SubSeq(s, 1, Len(s) - 1))
         IN IF s[Len(s)] \in Range(front) THEN front
            ELSE Append(front, s[Len(s)])

(* lines 53-95: "and" binds tighter than "or" in the test of line 91.      *)
extract_images_from_description(srcs) ==
    Dedup(SelectSeq(srcs, LAMBDA u :
              (startswith_http(u) /\ endswith_image_ext(u)) \/ in_pbs(u)))
(* parse_rss, lines 160-190: the tweet_data of one item.                   *)
tweet_data(item) ==
    [text |-> item.text, link |-> Link,
     images |-> extract_images_from_description(item.srcs),
     video_url |-> PyNone]
(* lines 214-263, 265-279 and 281-294.                                     *)
create_discord_embed(tweet) ==
    [description |-> IF tweet.text # 0
                     THEN Desc(Min(tweet.text, DescCap), 0, FALSE)
                     ELSE Desc(0, 0, TRUE),
     url |-> tweet.link,
     image |-> IF tweet.images # <<>> /\ startswith_http(tweet.images[1])
               THEN tweet.images[1] ELSE Absent]
create_additional_image_embeds(tweet) ==
    IF Len(tweet.images) > 1
    THEN LET extra == SelectSeq(PySlice(tweet.images, 1, 4), startswith_http)
         IN [k \in 1..Len(extra) |-> extra_embed(tweet.link, extra[k])]
    ELSE <<>>
all_embeds(tweet) ==
    Take(<<create_discord_embed(tweet)>>
             \o create_additional_image_embeds(tweet), 10)

(* One post taken through resolve and format, outside the loop: the detail *)
(* record of test_embed.py, or the RSS item of twitter_to_discord.py.      *)
Called(fn, arg) == [fn |-> fn, arg |-> arg, returned |-> FALSE]
Call(fn, arg, ret) == [fn |-> fn, arg |-> arg, returned |-> TRUE, ret |-> ret]
InitPost ==
    /\ InitBot
    /\ seen_tweets_file = NoFile
    /\ webhook_url = Hook
    /\ lastCall \in {Called("get_tweet_details", t) : t \in Tweets}
                    \cup {Called("parse_rss", it) : it \in Items}

Resolve ==
    /\ lastCall.fn = "get_tweet_details"
    /\ ~lastCall.returned
    /\ lastCall' = Call("get_tweet_details", lastCall.arg,
                        get_tweet_details_media(lastCall.arg))
    /\ UNCHANGED <<loopVars, webhook_url>>

Send ==
    /\ lastCall.fn = "get_tweet_details"
    /\ lastCall.returned
    /\ lastCall' = Call("send_to_discord", lastCall.ret,
                        embeds_of(lastCall.ret))
    /\ UNCHANGED <<loopVars, webhook_url>>

ParseItem ==
    /\ lastCall.fn = "parse_rss"
    /\ ~lastCall.returned
    /\ lastCall' = Call("parse_rss", lastCall.arg, tweet_data(lastCall.arg))
    /\ UNCHANGED <<loopVars, webhook_url>>

SendV4 ==
    /\ lastCall.fn = "parse_rss"
    /\ lastCall.returned
    /\ lastCall' = Call("send_to_discord_v4", lastCall.ret,
                        all_embeds(lastCall.ret))
    /\ UNCHANGED <<loopVars, webhook_url>>

NextPost ==
    \/ Resolve
    \/ Send
    \/ ParseItem
    \/ SendV4

SpecPost == InitPost /\ [][NextPost]_vars

(* --------------------------- the form of an id ------------------------- *)
(* An id field as upstream writes it is a string of characters, here of    *)
(* one digit and one letter.  Each adapter is given the raw field of one   *)
(* entry and returns the list of ids it appends for it.                    *)
MaxRawLen == 6
Chars == {"7", "x"}
RawIds == SeqsUpTo(Chars, MaxRawLen)
isdigit(str) == str # <<>> /\ \A k \in 1..Len(str) : str[k] = "7"

(* try_syndication_api, lines 84-89: tweet_id and str(tweet_id).isdigit(). *)
syndication_id(raw) == IF raw # <<>> /\ isdigit(raw) THEN <<raw>> ELSE <<>>
(* try_fxtwitter_user, lines 107-110: str(tweet.get('id', '')), if truthy.  *)
fxtwitter_id(raw) == IF raw # <<>> THEN <<raw>> ELSE <<>>
(* parse_rss_ids, lines 167-169 on the last segment of the link: re.sub    *)
(* drops what is not a digit, len(tweet_id) > 5 keeps the id.              *)
parse_rss_id(raw) ==
    LET tweet_id == SelectSeq(raw, LAMBDA c : c = "7")
    IN IF Len(tweet_id) > 5 THEN <<tweet_id>> ELSE <<>>

IdAdapters == {"try_syndication_api", "try_fxtwitter_user", "parse_rss_ids"}
InitIds ==
    /\ InitBot
    /\ seen_tweets_file = NoFile
    /\ webhook_url = Hook
    /\ lastCall \in {Called(fn, raw) : fn \in IdAdapters, raw \in RawIds}

ExtractSyndication ==
    /\ lastCall.fn = "try_syndication_api"
    /\ ~lastCall.returned
    /\ lastCall' = Call(lastCall.fn, lastCall.arg, syndication_id(lastCall.arg))
    /\ UNCHANGED <<loopVars, webhook_url>>

ExtractFxtwitter ==
    /\ lastCall.fn = "try_fxtwitter_user"
    /\ ~lastCall.returned
    /\ lastCall' = Call(lastCall.fn, lastCall.arg, fxtwitter_id(lastCall.arg))
    /\ UNCHANGED <<loopVars, webhook_url>>

ExtractRss ==
    /\ lastCall.fn = "parse_rss_ids"
    /\ ~lastCall.returned
    /\ lastCall' = Call(lastCall.fn, lastCall.arg, parse_rss_id(lastCall.arg))
    /\ UNCHANGED <<loopVars, webhook_url>>

NextIds ==
    \/ ExtractSyndication
    \/ ExtractFxtwitter
    \/ ExtractRss

SpecIds == InitIds /\ [][NextIds]_vars

(* parse_rss_ids on a whole body, lines 159-172.  A body either fails in   *)
(* ET.fromstring or holds a sequence of items; an item has a link element  *)
(* or not, and the text of the link ends in a raw last segment.            *)
MaxFeedLen == 11
Sevens(n) == [j \in 1..n |-> "7"]
GoodItem(k) ==
    [has_link |-> TRUE,
     text |-> IF k % 2 = 0 THEN Append(Sevens(5 + k), "x") ELSE Sevens(5 + k)]
BadItem(k) ==
    IF k % 3 = 0 THEN [has_link |-> FALSE, text |-> <<>>]
    ELSE IF k % 3 = 1 THEN [has_link |-> TRUE, text |-> <<>>]
    ELSE [has_link |-> TRUE, text |-> <<"7", "x", "7">>]
Feed(n, bad, shift) ==
    [parsable |-> TRUE,
     items |-> [k \in 1..n |-> IF k \in bad THEN BadItem(k + shift)
                                ELSE GoodItem(k)]]
Unparsable == [parsable |-> FALSE, items |-> <<>>]
Bodies ==
    {Unparsable}
    \cup {Feed(n, bad, shift) : n \in 0..MaxFeedLen,
                                bad \in SUBSET (1..MaxFeedLen),
                                shift \in 0..2}

(* lines 166-169: the ids one item adds.                                   *)
item_ids(item) ==
    IF item.has_link /\ item.text # <<>> THEN parse_rss_id(item.text)
    ELSE <<>>
RECURSIVE collect_ids(_)
collect_ids(items) ==
    IF items = <<>> THEN <<>>
    ELSE collect_ids(SubSeq(items, 1, Len(items) - 1))
             \o item_ids(items[Len(items)])
(* Line 164 takes the first 10 items; when ET.fromstring raises, the       *)
(* except of lines 170-171 leaves ids empty and line 172 returns it.       *)
parse_rss_ids_from_uncapped(body) ==
    IF ~body.parsable THEN Returned(<<>>)
    ELSE Returned(collect_ids(body.items))
parse_rss_ids_from(body) ==
    IF ~body.parsable THEN Returned(<<>>)
    ELSE Returned(collect_ids(PySlice(body.items, 0, FeedCap)))

InitFeed ==
    /\ InitBot
    /\ seen_tweets_file = NoFile
    /\ webhook_url = Hook
    /\ lastCall \in {Called("parse_rss_ids", b) : b \in Bodies}

ParseFeed ==
    /\ lastCall.fn = "parse_rss_ids"
    /\ ~lastCall.returned
    /\ lastCall' = Call(lastCall.fn, lastCall.arg,
                        parse_rss_ids_from(lastCall.arg))
    /\ UNCHANGED <<loopVars, webhook_url>>

NextFeed == ParseFeed

SpecFeed == InitFeed /\ [][NextFeed]_vars

(* ====================================================================== *)
(*                               Properties                               *)
(* ====================================================================== *)
Resolves == SelectSeq(log, LAMBDA e : e.kind = "resolve")
Completed(e) ==
    \/ e.kind = "resolve" /\ e.res = "none"
    \/ e.kind = "send" /\ e.res \in {"ok", "failed"}
NumCompleted == Len(SelectSeq(log, Completed))
HasRaise == \E k \in 1..Len(log) : log[k].kind = "raise"
NoDup(s) == \A j, k \in 1..Len(s) : s[j] = s[k] => j = k

(* C1: no id is the subject of more than one webhook POST during a process *)
(* lifetime, whatever the providers return, a list that repeats an id      *)
(* included.                                                               *)
C1_AtMostOneSendPerId == \A x \in Ids : sendCount[x] <= 1

MethodOk(k) == ~Method(k, resp).raised /\ Method(k, resp).ids # <<>>
C6_SeenOnlyGrows == [][pc # "down" => seen_tweets \subseteq seen_tweets']_vars

C6_Witness ==
    /\ pc = "sleeping"
    /\ branch = "deliver"
    /\ HasRaise
    /\ seen0 # {}
    /\ seen0 \subseteq seen_tweets
    /\ seen0 # seen_tweets

(* C7: at the end of every Delivering cycle each id of the new list is in  *)
(* the SeenSet, whatever happened to any other id of the list.             *)
C7_EveryNewIdSeenAtCycleEnd ==
    (pc = "sleeping" /\ branch = "deliver") => Range(new_ids) \subseteq seen_tweets

(* C8: the new list is the fetched list without the seen ids, in the       *)
(* fetched order, and it is processed from its last entry to its first,    *)
(* one entry at a time: the send (or raise) of an entry directly follows   *)
(* its resolve, before the resolve of the entry that precedes it.          *)
C8_OldestFirst ==
    branch = "deliver" =>
        /\ new_ids = SelectSeq(tweet_ids, LAMBDA t : t \notin seen0)
        /\ Len(Resolves) <= Len(new_ids)
        /\ \A k \in 1..Len(Resolves) :
               Resolves[k].id = new_ids[Len(new_ids) + 1 - k]
        /\ \A k \in 1..Len(log) :
               /\ log[k].kind \in {"send", "raise"} =>
                      /\ k > 1
                      /\ log[k - 1].kind = "resolve"
                      /\ log[k - 1].res = "found"
                      /\ log[k - 1].id = log[k].id
               /\ (log[k].kind = "resolve" /\ log[k].res = "found") =>
                      /\ k < Len(log)
                      /\ log[k + 1].kind \in {"send", "raise"}

C8_Witness ==
    /\ pc = "sleeping"
    /\ branch = "deliver"
    /\ Len(new_ids) = 2
    /\ new_ids[1] # new_ids[2]
    /\ Len(log) = 4
    /\ log[1].id = new_ids[2] /\ log[2].kind = "send"
    /\ log[3].id = new_ids[1] /\ log[4].kind = "send"

(* C9: an id that was in the SeenSet at the start of a cycle of this       *)
(* process is neither resolved nor sent in that cycle or a later one, and  *)
(* a cycle that is not a bootstrap resolves exactly the fetched ids that   *)
(* were not in the SeenSet at its start.                                   *)
C9_SeenNeverResolvedNewAllResolved ==
    /\ \A k \in 1..Len(log) : log[k].id \notin startSeen
    /\ (pc = "sleeping" /\ branch \in {"nonew", "deliver"}) =>
           {Resolves[k].id : k \in 1..Len(Resolves)} = Range(tweet_ids) \ seen0

(* C10: a cycle in which no method of the chain returns a non-empty list   *)
(* fetches [] and changes nothing: no resolve, no POST, the SeenSet, the   *)
(* file and first_run are as before, and the loop goes to its sleep and    *)
(* back to idle.                                                           *)
C10_EmptyFetchIsNoOp ==
    [][ /\ (pc = "idle" /\ pc' \in {"delivering", "sleeping"} /\ noneUp') =>
            /\ tweet_ids' = <<>>
            /\ pc' = "sleeping"
            /\ log' = <<>>
            /\ UNCHANGED <<seen_tweets, seen_tweets_file, first_run, sendCount>>
        /\ (pc = "sleeping" /\ noneUp /\ pc' # "down") =>
            /\ pc' = "idle"
            /\ UNCHANGED <<seen_tweets, seen_tweets_file, first_run, sendCount>>
      ]_vars

C10_Witness ==
    /\ pc = "sleeping"
    /\ noneUp
    /\ tweet_ids = <<>>
    /\ first_run
    /\ seen_tweets_file = NoFile
    /\ cycle = 2

(* C11: a cycle failure never ends the loop.  Once the body of a cycle has *)
(* raised, the loop is at its sleep (the exception was caught at line      *)
(* 329), the SeenSet and its file still hold every id recorded before the  *)
(* exception, and the next cycle is eventually started: its fetch has     *)
(* chosen an arm (branch) and its log holds no raise.  The model stops     *)
(* after MaxCycles cycles, so the last one has no successor to wait for.   *)
C11_RaiseIsCaughtAndLoopGoesOn ==
    /\ [](HasRaise =>
            /\ pc = "sleeping"
            /\ seen0 \subseteq seen_tweets
            /\ \A k \in 1..Len(log) :
                   Completed(log[k]) => log[k].id \in seen_tweets
            /\ seen_tweets_file = File(seen_tweets))
    /\ (HasRaise /\ cycle < MaxCycles) ~> (branch # "none" /\ ~HasRaise)
C11_Witness ==
    /\ HasRaise
    /\ pc = "sleeping"
    /\ NumCompleted = 1
    /\ seen0 # seen_tweets
    /\ cycle < MaxCycles

Max(a, b) == IF a > b THEN a ELSE b
Sent ==
    /\ lastCall.fn \in {"send_to_discord", "send_to_discord_v4"}
    /\ lastCall.returned

(* C12: a post with n images is formatted into exactly max(1, min(n, 4))   *)
(* embeds and never more than 10; the first carries images[0], the k-th    *)
(* carries images[k-1], every later one has the url of the first, and the  *)
(* images from the fifth on are in none.                                   *)
C12_BatchSize ==
    Sent =>
        LET images == lastCall.arg.images
            n == Len(images)
            e == lastCall.ret
        IN /\ Len(e) = Max(1, Min(n, 4))
           /\ Len(e) <= 10
           /\ n >= 1 => e[1].image = images[1]
           /\ \A k \in 2..Len(e) :
                  e[k].image = images[k] /\ e[k].url = e[1].url

(* C13: a post with empty text and no media is formatted into exactly one  *)
(* embed, whose description is a placeholder of at least one character.    *)
C13_EmptyPostHasPlaceholder ==
    (/\ Sent
     /\ lastCall.arg.text = 0
     /\ lastCall.arg.images = <<>>
     /\ ~truthy(lastCall.arg.video_url))
        => /\ Len(lastCall.ret) = 1
           /\ lastCall.ret[1].description.placeholder
           /\ DescLen(lastCall.ret[1].description) > 0

(* C15: when the record has no photo with a url and its first video, or    *)
(* with no video its first gif, has a thumbnail, the resolved images are   *)
(* that thumbnail alone; when a photo has a url, the resolved images are   *)
(* the photo urls in the record's order and no thumbnail.                  *)
C15_ThumbnailFallback ==
    (lastCall.fn = "get_tweet_details" /\ lastCall.returned) =>
        LET t == lastCall.arg
            stills == SelectSeq(t.photos, truthy)
            first == IF t.videos # <<>> THEN <<t.videos[1]>>
                     ELSE IF t.gifs # <<>> THEN <<t.gifs[1]>> ELSE <<>>
        IN /\ (stills = <<>> /\ first # <<>> /\ first[1].thumbnail_url # "")
                  => lastCall.ret.images = <<first[1].thumbnail_url>>
           /\ stills # <<>> => lastCall.ret.images = stills
C15_Witness ==
    /\ lastCall.fn = "get_tweet_details"
    /\ lastCall.returned
    /\ lastCall.arg.photos = <<"">>
    /\ lastCall.arg.videos = <<>>
    /\ lastCall.arg.gifs # <<>>
    /\ lastCall.ret.images = <<"https://gt.jpg">>

(* C14: every id an adapter appends to its list is non-empty, made of      *)
(* digits only and at least 6 characters long, whichever adapter it is.    *)
C14_IdsWellFormed ==
    (lastCall.fn \in IdAdapters /\ lastCall.returned) =>
        \A k \in 1..Len(lastCall.ret) :
            isdigit(lastCall.ret[k]) /\ Len(lastCall.ret[k]) >= 6

(* C16: with DISCORD_WEBHOOK_URL absent main halts before any cycle: the   *)
(* seen set is never loaded (it stays unset even when the file holds ids), *)
(* the file is never written, no provider is fetched, nothing is resolved  *)
(* or sent.                                                                *)
C16_NoUrlNoCycle ==
    /\ [](webhook_url = "" =>
            /\ pc \in {"start", "halted"}
            /\ seen_tweets = {}
            /\ cycle = 0
            /\ tweet_ids = <<>>
            /\ log = <<>>
            /\ \A x \in Ids : sendCount[x] = 0)
    /\ [][webhook_url = "" =>
            (pc' # "idle" /\ seen_tweets_file' = seen_tweets_file)]_vars
C16_Witness ==
    /\ webhook_url = ""
    /\ pc = "halted"
    /\ seen_tweets_file # NoFile
    /\ seen_tweets = {}

(* C18: in the loop of twitter_to_discord.py a post whose send failed is   *)
(* in the seen set and in the file once its pass of the loop is over, so   *)
(* that no later cycle finds it new.                                       *)
C18_FailedSendIsSeen ==
    \A k \in 1..Len(log) :
        (log[k].kind = "send" /\ log[k].res = "failed")
            => /\ log[k].id \in seen_tweets
               /\ log[k].id \in seen_tweets_file.data

(* C19: after the bootstrap cycle no post that upstream showed when the    *)
(* bootstrap cycle ran is sent, whichever adapter answered then and        *)
(* whichever answers later.                                                *)
C19_NoHistorySent ==
    \A k \in 1..Len(log) :
        log[k].kind = "send" => log[k].id \notin existing

(* C20: the first-run flag is up only in a process whose loaded seen set   *)
(* was empty and that has not recorded anything yet.  A cycle takes the    *)
(* bootstrap arm exactly when the flag is up and its fetch is not empty,   *)
(* and that lowers the flag; once down the flag stays down for the rest of *)
(* the process, so a process bootstraps at most once.  A cycle that finds  *)
(* new ids with the flag down is a delivering cycle.                       *)
C20_BootstrapOnlyOnEmptyAndOnce ==
    /\ []((pc # "down" /\ first_run) =>
             (seen_tweets = {} /\ startSeen = {} /\ done = {}))
    /\ [][(pc = "idle" /\ cycle' = cycle + 1) =>
             /\ branch' = "bootstrap" <=> (first_run /\ tweet_ids' # <<>>)
             /\ branch' = "bootstrap" => ~first_run'
             /\ (~first_run /\ new_ids' # <<>>) =>
                    (branch' = "deliver" /\ pc' = "delivering")]_vars
    /\ [][(pc # "down" /\ ~first_run) => ~first_run']_vars
C20_Witness ==
    /\ branch = "bootstrap"
    /\ pc = "sleeping"
    /\ cycle = 2
    /\ ~first_run
    /\ startSeen = {}
    /\ seen_tweets # {}

(* C21: when the resolved post has a video url, the description of the     *)
(* primary embed is at most 4096 characters long and holds the whole       *)
(* watch-video marker, whatever the length of the text.                    *)
C21_MarkerKeptWithinCap ==
    (/\ lastCall.fn = "send_to_discord"
     /\ lastCall.returned
     /\ truthy(lastCall.arg.video_url))
        => /\ DescLen(lastCall.ret[1].description) <= DescCap
           /\ lastCall.ret[1].description.marker = MarkerLen

(* C22: when the record has at least one video entry, the resolved         *)
(* video_url is that of the first video and no gif thumbnail enters the    *)
(* images; a gif is used only when the record has no video entry.          *)
C22_VideoBeforeGif ==
    (/\ lastCall.fn = "get_tweet_details"
     /\ lastCall.returned
     /\ lastCall.arg.videos # <<>>)
        => /\ lastCall.ret.video_url = lastCall.arg.videos[1].url
           /\ \A g \in Range(lastCall.arg.gifs) :
                  g.thumbnail_url \notin Range(lastCall.ret.images)

(* C23: the images of a resolved post hold no url twice, in the detail     *)
(* resolver of test_embed.py and in the RSS parser of                      *)
(* twitter_to_discord.py alike.                                            *)
C23_ImagesHaveNoDuplicate ==
    (/\ lastCall.fn \in {"get_tweet_details", "parse_rss"}
     /\ lastCall.returned)
        => NoDup(lastCall.ret.images)

(* The digits of a link text, and the items among the first 10 that        *)
(* carry an id: a link whose text has more than 5 digits.                  *)
Digits(text) == SelectSeq(text, LAMBDA c : c = "7")
WellFormed(item) == item.has_link /\ Len(Digits(item.text)) > 5
GoodAmongFirst(items) ==
    {k \in 1..Min(Len(items), FeedCap) : WellFormed(items[k])}
NthOf(S, j) == CHOOSE k \in S : Cardinality({g \in S : g <= k}) = j

(* C24: parse_rss_ids never raises; on an unparsable body it returns the   *)
(* empty sequence; otherwise it returns, in feed order, the id of every    *)
(* well-formed item among the first 10 items and nothing else, so at most  *)
(* 10 ids, and an item without a link, with an empty link or with 5 digits *)
(* or fewer takes nothing away from the others.                            *)
C24_FirstTenInOrder ==
    (lastCall.fn = "parse_rss_ids" /\ lastCall.returned)
        => LET body == lastCall.arg
               out == lastCall.ret
               good == GoodAmongFirst(body.items)
           IN /\ ~out.raised
              /\ Len(out.ids) <= FeedCap
              /\ ~body.parsable => out.ids = <<>>
              /\ Len(out.ids) = Cardinality(good)
              /\ \A j \in 1..Len(out.ids) :
                     out.ids[j] = Digits(body.items[NthOf(good, j)].text)
C24_Witness ==
    /\ lastCall.fn = "parse_rss_ids"
    /\ lastCall.returned
    /\ Len(lastCall.arg.items) > FeedCap
    /\ WellFormed(lastCall.arg.items[FeedCap + 1])
    /\ \E k \in 2..(FeedCap - 1) :
           /\ ~WellFormed(lastCall.arg.items[k])
           /\ WellFormed(lastCall.arg.items[k - 1])
           /\ WellFormed(lastCall.arg.items[k + 1])
    /\ Len(lastCall.ret.ids) > 1

(* C25: when the process is killed inside save_seen_tweets, the set the    *)
(* next start loads from the file holds every id that was on record        *)
(* before that save began (the set of the cycle's start and the ids the    *)
(* cycle has recorded since), and it is not empty, so the next start is    *)
(* not a first run.                                                        *)
C25_RecordSurvivesCrashInSave ==
    (pc = "down" /\ crashKind = "insave")
        => LET loaded == load_seen_tweets(seen_tweets_file)
           IN /\ (seen0 \cup done) \subseteq loaded
              /\ ~is_first_run(loaded)

====
